---- MODULE Spec2Model ----
(***************************************************************************)
(* metal/analysis.py: error_buckets and the ConfusionMatrix accumulator    *)
(* (add, compile, __repr__, display).                                      *)
(*                                                                         *)
(* A label is a natural number, 0 being the null label.  A tensor of       *)
(* labels is a sequence of labels.  A string is a sequence of one-         *)
(* character strings, a printed text a sequence of such lines.  A numpy    *)
(* array of shape (m, n) is a record [m, n, a] whose field a maps the      *)
(* index pairs <<i, j>>, 0-based, to the cells.                            *)
(***************************************************************************)
EXTENDS Integers, Sequences, FiniteSets

\* ------------------------------------------------------------- bounds
\* Labels are 0..MaxLabel.
MaxLabel == 1
\* The longest gold or pred tensor of one call (SpecAcc, SpecFn).
MaxLen == 2
\* The longest gold or pred tensor of one add call in Spec and SpecDisplay,
\* where any number of calls follow one another.
MaxBatch == 1
\* The most observations a ConfusionMatrix holds (Spec, SpecDisplay).
MaxTotal == 2
\* The most add calls of one accumulation history (SpecAcc).
MaxAdds == 2
\* display's indent is drawn from 0..MaxIndent, its spacing from 0..MaxSpacing.
MaxIndent == 1
MaxSpacing == 1

\* -------------------------------------------------- program constants
\* display: the header's left pad, 5 + spacing spaces.
HeaderPad == 5
\* display: the width of a count's field, f"{..:^5d}".
CountWidth == 5
\* display: the width and the precision of a rate's field, f"{..:>5.3f}".
RateWidth == 5
RatePrecision == 3
\* display's default arguments.
DefaultIndent == 0
DefaultSpacing == 2
DefaultDecimals == 3

VARIABLES
    counter,    \* self.counter: a Counter, pair -> count, on the pairs it holds
    mat,        \* self.mat: the cached compiled matrix, or None
    null_pred,  \* self.null_pred
    null_gold,  \* self.null_gold
    last,       \* the most recent call on the object: what it returned, raised, printed
    added,      \* whether add has been called on the object
    calls,      \* history of the add calls made (SpecAcc): <<gold, pred>> each
    input,      \* the arguments of the one-shot functions (SpecFn)
    eb          \* what error_buckets(input) returned or raised (SpecFn)

vars == <<counter, mat, null_pred, null_gold, last, added, calls, input, eb>>

\* ------------------------------------------------------------ helpers
Labels == 0 .. MaxLabel

SeqsUpTo(S, n) == UNION {[1 .. k -> S] : k \in 0 .. n}

Tensors == SeqsUpTo(Labels, MaxLen)

Batches == SeqsUpTo(Labels, MaxBatch)

Min(a, b) == IF a <= b THEN a ELSE b

SetMax(S) == CHOOSE x \in S : \A y \in S : y <= x

\* Python None, for self.mat and for a call that returns no matrix.
None == [m |-> 0 - 1, n |-> 0 - 1, a |-> <<>>]

\* zip(gold.numpy(), pred.numpy()): the pairs up to the shorter length.
Zip(gold, pred) ==
    [i \in 1 .. Min(Len(gold), Len(pred)) |-> <<gold[i], pred[i]>>]

\* Counter(): no key.
EmptyCounter == [key \in {} |-> 0]

\* A bug CounterIncr could have: counter[elem] = 1, the count forgotten.
CounterIncrSet(c, elem) == [key \in DOMAIN c \cup {elem} |-> IF key = elem THEN 1 ELSE c[key]]

\* Counter.update's step, counter[elem] += 1 (a missing key counts 0).
CounterIncr(c, elem) ==
    [key \in DOMAIN c \cup {elem} |->
        IF key = elem
        THEN (IF elem \in DOMAIN c THEN c[elem] ELSE 0) + 1
        ELSE c[key]]

RECURSIVE CounterUpdate(_, _)
\* Counter.update(iterable): one increment per element, in order.
CounterUpdate(c, items) ==
    IF items = <<>> THEN c
    ELSE CounterUpdate(CounterIncr(c, Head(items)), Tail(items))

RECURSIVE CounterTotal(_)
\* The sum of the counts a Counter holds.
CounterTotal(c) ==
    IF DOMAIN c = {} THEN 0
    ELSE LET key == CHOOSE x \in DOMAIN c : TRUE
         IN  c[key] + CounterTotal([x \in DOMAIN c \ {key} |-> c[x]])

\* np.zeros((m, n), dtype=int).
Zeros(m, n) ==
    [m |-> m, n |-> n, a |-> [ij \in (0 .. m - 1) \X (0 .. n - 1) |-> 0]]

\* for (p, y), v in counter.items(): mat[p, y] = v
Fill(z, c) ==
    [z EXCEPT !.a = [ij \in DOMAIN z.a |-> IF ij \in DOMAIN c THEN c[ij] ELSE z.a[ij]]]

\* mat[1:, :]
DropRow0(x) ==
    LET m2 == IF x.m >= 1 THEN x.m - 1 ELSE 0
    IN  [m |-> m2, n |-> x.n,
         a |-> [ij \in (0 .. m2 - 1) \X (0 .. x.n - 1) |-> x.a[<<ij[1] + 1, ij[2]>>]]]

\* mat[:, 1:]
DropCol0(x) ==
    LET n2 == IF x.n >= 1 THEN x.n - 1 ELSE 0
    IN  [m |-> x.m, n |-> n2,
         a |-> [ij \in (0 .. x.m - 1) \X (0 .. n2 - 1) |-> x.a[<<ij[1], ij[2] + 1>>]]]

\* A bug KeyMax could have: max(.., default=0), so that an empty counter
\* compiles to a 1 x 1 matrix of zeros.
KeyMaxDefault(c) ==
    [outcome |-> "ok",
     value |-> SetMax({0} \cup {IF key[1] >= key[2] THEN key[1] ELSE key[2] : key \in DOMAIN c})]

\* max([max(tup) for tup in self.counter.keys()]): max() of an empty list
\* raises ValueError.
KeyMax(c) ==
    IF DOMAIN c = {} THEN [outcome |-> "ValueError", value |-> 0]
    ELSE [outcome |-> "ok",
          value |-> SetMax({IF key[1] >= key[2] THEN key[1] ELSE key[2] : key \in DOMAIN c})]

\* k = max(..) + 1  # include 0
MatSize(c) == KeyMax(c).value + 1

\* A bug CompileMat could have: the two flags taken for each other.
CompileMatFlagsSwapped(c, trim, np, ng) ==
    LET k    == MatSize(c)
        full == Fill(Zeros(k, k), c)
        rows == IF trim /\ ~ng THEN DropRow0(full) ELSE full
    IN  IF trim /\ ~np THEN DropCol0(rows) ELSE rows

\* The matrix compile builds and returns, once k is known.
CompileMat(c, trim, np, ng) ==
    LET k    == MatSize(c)
        full == Fill(Zeros(k, k), c)
        rows == IF trim /\ ~np THEN DropRow0(full) ELSE full
    IN  IF trim /\ ~ng THEN DropCol0(rows) ELSE rows

\* ------------------------------------------------------------ strings
Digit == <<"0", "1", "2", "3", "4", "5", "6", "7", "8", "9">>

RECURSIVE IntStr(_)
\* str(n) of a natural number.
IntStr(n) ==
    IF n < 10 THEN <<Digit[n + 1]>>
    ELSE IntStr(n \div 10) \o <<Digit[(n % 10) + 1]>>

\* ' ' * n
Spaces(n) == [i \in 1 .. n |-> " "]

\* Right-aligned in a field of width w (never cut).
RightAlign(s, w) == IF Len(s) >= w THEN s ELSE Spaces(w - Len(s)) \o s

\* Centred in a field of width w, the odd space on the right (never cut).
Center(s, w) ==
    IF Len(s) >= w THEN s
    ELSE LET pad == w - Len(s)
         IN  Spaces(pad \div 2) \o s \o Spaces(pad - (pad \div 2))

RECURSIVE Pow10(_)
Pow10(d) == IF d = 0 THEN 1 ELSE 10 * Pow10(d - 1)

\* f"{v:^5d}"
FormatCount(v) == Center(IntStr(v), CountWidth)

\* round(num / den) to the nearest integer, a tie to the even one.  The float
\* v / s is exact enough for this to be what '.3f' prints unless num / den is a
\* tie, which needs a den of at least 16.
RoundDiv(num, den) ==
    LET q == num \div den
        r == num % den
    IN  IF 2 * r > den \/ (2 * r = den /\ q % 2 = 1) THEN q + 1 ELSE q

\* f"{v / s:>5.3f}": numpy's integer division by zero gives nan (0 / 0) or inf.
FormatRate(v, s) ==
    IF s = 0
    THEN RightAlign(IF v = 0 THEN <<"n", "a", "n">> ELSE <<"i", "n", "f">>, RateWidth)
    ELSE LET scale == Pow10(RatePrecision)
             t     == RoundDiv(v * scale, s)
             frac  == IntStr(t % scale)
             zeros == [i \in 1 .. RatePrecision - Len(frac) |-> "0"]
         IN  RightAlign(IntStr(t \div scale) \o <<".">> \o zeros \o frac, RateWidth)

\* f" y={j} " and f" l={i} "
ColLabel(j) == <<" ", "y", "=">> \o IntStr(j) \o <<" ">>
RowLabel(i) == <<" ", "l", "=">> \o IntStr(i) \o <<" ">>

\* sum(mat[i, 1:])
RowSum(x, i) ==
    LET S[j \in 0 .. x.n] == IF j <= 1 THEN 0 ELSE S[j - 1] + x.a[<<i, j - 1>>]
    IN  S[x.n]

\* s[:-1] + '*'
MarkLast(s) == SubSeq(s, 1, Len(s) - 1) \o <<"*">>

\* display's header line.
HeaderLine(x, ng, indent, spacing) ==
    LET tab == Spaces(spacing)
        H[j \in 0 .. x.n] ==
            IF j = 0 THEN Spaces(indent) \o Spaces(HeaderPad + spacing)
            ELSE IF j - 1 = 0 /\ ~ng THEN H[j - 1]
            ELSE H[j - 1] \o ColLabel(j - 1) \o tab
    IN  H[x.n]

\* display's line of row i: R[j] is s after the columns before j.
RowLine(x, i, ng, counts, indent, spacing, mark_diag) ==
    LET tab == Spaces(spacing)
        R[j \in 0 .. x.n] ==
            IF j = 0 THEN Spaces(indent) \o RowLabel(i) \o tab
            ELSE IF j - 1 = 0 /\ ~ng THEN R[j - 1]
            ELSE LET s == IF i = j - 1 /\ mark_diag /\ ~counts
                          THEN MarkLast(R[j - 1]) ELSE R[j - 1]
                 IN  IF counts
                     THEN s \o FormatCount(x.a[<<i, j - 1>>]) \o tab
                     ELSE s \o FormatRate(x.a[<<i, j - 1>>], RowSum(x, i)) \o tab
    IN  R[x.n]

\* The lines display prints for the untrimmed matrix x.
DisplayLines(x, np, ng, counts, indent, spacing, mark_diag) ==
    LET first == IF np THEN 0 ELSE 1
    IN  <<HeaderLine(x, ng, indent, spacing)>> \o
        [r \in 1 .. x.m - first |->
            RowLine(x, first + r - 1, ng, counts, indent, spacing, mark_diag)]

\* str(mat) of a numpy integer matrix, as its lines: "[]" for an array of size
\* 0, else the cells right-aligned to the widest one.
StrMat(x) ==
    IF x.m = 0 \/ x.n = 0 THEN << <<"[", "]">> >>
    ELSE LET w == SetMax({Len(IntStr(x.a[ij])) : ij \in DOMAIN x.a})
             Cells[j \in 0 .. x.n, i \in 0 .. x.m - 1] ==
                 IF j = 0 THEN <<>>
                 ELSE Cells[j - 1, i] \o (IF j = 1 THEN <<>> ELSE <<" ">>)
                      \o RightAlign(IntStr(x.a[<<i, j - 1>>]), w)
         IN  [r \in 1 .. x.m |->
                (IF r = 1 THEN <<"[", "[">> ELSE <<" ", "[">>)
                \o Cells[x.n, r - 1]
                \o (IF r = x.m THEN <<"]", "]">> ELSE <<"]">>)]

\* ------------------------------------------------------- error_buckets
\* buckets = defaultdict(list)
EmptyBuckets == [key \in {} |-> <<>>]

\* A bug BucketKey could have: buckets[l, y].
BucketKeySwapped(y, l) == <<l, y>>

\* The key of the loop's (y, l), y from gold and l from pred: buckets[y, l].
BucketKey(y, l) == <<y, l>>

RECURSIVE BucketLoop(_, _, _, _)
\* The loop over enumerate(zip(..)), at the 1-based position i; X[i] of a
\* shorter X raises IndexError.
BucketLoop(items, i, X, buckets) ==
    IF i > Len(items) THEN [outcome |-> "ok", buckets |-> buckets]
    ELSE IF X.given /\ i > Len(X.items)
    THEN [outcome |-> "IndexError", buckets |-> EmptyBuckets]
    ELSE LET key == BucketKey(items[i][1], items[i][2])
             val == IF X.given THEN X.items[i] ELSE i - 1
             old == IF key \in DOMAIN buckets THEN buckets[key] ELSE <<>>
         IN  BucketLoop(items, i + 1, X,
                 [k \in DOMAIN buckets \cup {key} |->
                     IF k = key THEN Append(old, val) ELSE buckets[k]])

error_buckets(gold, pred, X) == BucketLoop(Zip(gold, pred), 1, X, EmptyBuckets)

\* ------------------------------------------------------------ the calls
NoCall == [op |-> "init", outcome |-> "ok", args |-> <<>>, ret |-> None, text |-> <<>>]

\* A bug AddCounter could have: self.counter = Counter(zip(..)), the earlier
\* calls forgotten.
AddCounterReset(c, gold, pred) == CounterUpdate(EmptyCounter, Zip(gold, pred))

\* self.counter.update(zip(gold.numpy(), pred.numpy()))
AddCounter(c, gold, pred) == CounterUpdate(c, Zip(gold, pred))

\* ConfusionMatrix.add(gold, pred)
add(gold, pred) ==
    /\ counter' = AddCounter(counter, gold, pred)
    /\ added' = TRUE
    /\ last' = [op |-> "add", outcome |-> "ok", args |-> <<>>, ret |-> None, text |-> <<>>]
    /\ UNCHANGED <<mat, null_pred, null_gold>>

\* ConfusionMatrix.compile(trim): max() of no key raises ValueError before
\* self.mat is assigned.
compile(trim) ==
    /\ IF KeyMax(counter).outcome # "ok"
       THEN /\ last' = [op |-> "compile", outcome |-> KeyMax(counter).outcome,
                        args |-> [trim |-> trim], ret |-> None, text |-> <<>>]
            /\ UNCHANGED mat
       ELSE /\ mat' = CompileMat(counter, trim, null_pred, null_gold)
            /\ last' = [op |-> "compile", outcome |-> "ok",
                        args |-> [trim |-> trim], ret |-> mat', text |-> <<>>]
    /\ UNCHANGED <<counter, null_pred, null_gold, added>>

\* ConfusionMatrix.__repr__(): compiles (trim=True) only when no matrix is
\* cached, and returns str(self.mat).
repr ==
    /\ IF mat = None /\ KeyMax(counter).outcome # "ok"
       THEN /\ last' = [op |-> "repr", outcome |-> KeyMax(counter).outcome, args |-> <<>>,
                        ret |-> None, text |-> <<>>]
            /\ UNCHANGED mat
       ELSE /\ mat' = IF mat = None
                      THEN CompileMat(counter, TRUE, null_pred, null_gold)
                      ELSE mat
            /\ last' = [op |-> "repr", outcome |-> "ok", args |-> <<>>,
                        ret |-> None, text |-> StrMat(mat')]
    /\ UNCHANGED <<counter, null_pred, null_gold, added>>

\* ConfusionMatrix.display(counts, indent, spacing, decimals, mark_diag):
\* compile(trim=False), then the header and the rows are printed.  decimals is
\* not read.
display(counts, indent, spacing, decimals, mark_diag) ==
    LET args == [counts |-> counts, indent |-> indent, spacing |-> spacing,
                 decimals |-> decimals, mark_diag |-> mark_diag]
    IN  /\ IF KeyMax(counter).outcome # "ok"
           THEN /\ last' = [op |-> "display", outcome |-> KeyMax(counter).outcome, args |-> args,
                            ret |-> None, text |-> <<>>]
                /\ UNCHANGED mat
           ELSE /\ mat' = CompileMat(counter, FALSE, null_pred, null_gold)
                /\ last' = [op |-> "display", outcome |-> "ok", args |-> args,
                            ret |-> None,
                            text |-> DisplayLines(mat', null_pred, null_gold,
                                                  counts, indent, spacing, mark_diag)]
        /\ UNCHANGED <<counter, null_pred, null_gold, added>>

\* ------------------------------------------------------- specifications
\* ConfusionMatrix(null_pred, null_gold)
NewMatrix ==
    /\ counter = EmptyCounter
    /\ mat = None
    /\ null_pred \in BOOLEAN
    /\ null_gold \in BOOLEAN
    /\ last = NoCall
    /\ added = FALSE

\* X=None
NoX == [given |-> FALSE, items |-> <<>>]
NoInput == [gold |-> <<>>, pred |-> <<>>, X |-> NoX]
NoBuckets == [outcome |-> "none", buckets |-> EmptyBuckets]

\* The life of one ConfusionMatrix: any calls in any order.
Init ==
    /\ NewMatrix
    /\ calls = <<>>
    /\ input = NoInput
    /\ eb = NoBuckets

AddCall ==
    LET room == MaxTotal - CounterTotal(counter)
    IN  \E gold \in Batches, pred \in Batches :
            /\ Min(Len(gold), Len(pred)) <= room
            /\ add(gold, pred)
            /\ UNCHANGED <<calls, input, eb>>

CompileCall ==
    \E trim \in BOOLEAN :
        /\ compile(trim)
        /\ UNCHANGED <<calls, input, eb>>

ReprCall ==
    /\ repr
    /\ UNCHANGED <<calls, input, eb>>

\* conf.display(), as confusion_matrix(pretty=True) calls it.
DisplayDefault ==
    /\ display(TRUE, DefaultIndent, DefaultSpacing, DefaultDecimals, TRUE)
    /\ UNCHANGED <<calls, input, eb>>

Next == AddCall \/ CompileCall \/ ReprCall \/ DisplayDefault

Spec == Init /\ [][Next]_vars

\* Pretty-printing: add and display with any arguments.
DisplayCall ==
    \E counts \in BOOLEAN, indent \in 0 .. MaxIndent, spacing \in 0 .. MaxSpacing,
       mark_diag \in BOOLEAN :
        /\ display(counts, indent, spacing, DefaultDecimals, mark_diag)
        /\ UNCHANGED <<calls, input, eb>>

NextDisplay == AddCall \/ DisplayCall

SpecDisplay == Init /\ [][NextDisplay]_vars

\* Accumulation: add calls with tensors of equal length, recorded in calls, and
\* compile.
AddLogged ==
    /\ Len(calls) < MaxAdds
    /\ \E n \in 0 .. Min(MaxLen, MaxTotal - CounterTotal(counter)) :
           \E gold \in [1 .. n -> Labels], pred \in [1 .. n -> Labels] :
               /\ add(gold, pred)
               /\ calls' = Append(calls, <<gold, pred>>)
               /\ UNCHANGED <<input, eb>>

NextAcc == AddLogged \/ CompileCall

SpecAcc == Init /\ [][NextAcc]_vars

\* The one-shot use: error_buckets(gold, pred, X), and a fresh ConfusionMatrix
\* given add(gold, pred) once and compiled, on the same arguments.
ExampleGold == <<1, 1, 2, 2>>
ExamplePred == <<1, 2, 1, 2>>
FnTensors == Tensors \cup {ExampleGold, ExamplePred}

\* The i-th item of X, "x<i>".
Item(i) == <<"x">> \o IntStr(i)
XOptions == {NoX} \cup {[given |-> TRUE, items |-> [i \in 1 .. n |-> Item(i)]] : n \in 0 .. MaxLen}

InitFn ==
    /\ NewMatrix
    /\ calls = <<>>
    /\ input \in [gold : FnTensors, pred : FnTensors, X : XOptions]
    /\ eb = NoBuckets

ErrorBucketsCall ==
    /\ eb = NoBuckets
    /\ eb' = error_buckets(input.gold, input.pred, input.X)
    /\ UNCHANGED <<counter, mat, null_pred, null_gold, last, added, calls, input>>

AddInput ==
    /\ ~added
    /\ add(input.gold, input.pred)
    /\ UNCHANGED <<calls, input, eb>>

NextFn == ErrorBucketsCall \/ AddInput \/ CompileCall

SpecFn == InitFn /\ [][NextFn]_vars

\* =============================================================== claims
CompiledOk == last.op = "compile" /\ last.outcome = "ok"
DisplayedOk == last.op = "display" /\ last.outcome = "ok"

\* How many positions of the add calls made so far have prediction p and gold
\* label y.
ObservedCount(p, y) ==
    LET N[c \in 0 .. Len(calls)] ==
            IF c = 0 THEN 0
            ELSE N[c - 1] + Cardinality({i \in 1 .. Len(calls[c][1]) :
                                            calls[c][2][i] = p /\ calls[c][1][i] = y})
    IN  N[Len(calls)]

\* C1: after add calls with tensors of equal length, the cell [p, y] of
\* compile(trim=False) is the number of added positions with prediction p and
\* gold label y: rows are predictions, columns gold labels.
C1_RowsPredColsGold ==
    (CompiledOk /\ ~last.args.trim) =>
        \A p \in 0 .. last.ret.m - 1, y \in 0 .. last.ret.n - 1 :
            last.ret.a[<<p, y>>] = ObservedCount(p, y)

\* The bucket the claim gives the pair (p, y): the positions, 0-based and
\* increasing, with prediction p and gold label y, or their items of X.
ExpectedBucket(p, y) ==
    LET B[i \in 0 .. Len(input.gold)] ==
            IF i = 0 THEN <<>>
            ELSE IF input.pred[i] = p /\ input.gold[i] = y
            THEN Append(B[i - 1], IF input.X.given THEN input.X.items[i] ELSE i - 1)
            ELSE B[i - 1]
    IN  B[Len(input.gold)]

\* C2: for gold and pred of equal length, the keys of error_buckets are the
\* observed (prediction, gold) pairs, and the bucket of (p, y) holds, in
\* increasing order, the positions (or items) with prediction p and gold y.
C2_BucketsByPredGold ==
    (eb.outcome = "ok" /\ Len(input.gold) = Len(input.pred)) =>
        /\ DOMAIN eb.buckets =
               {<<input.pred[i], input.gold[i]>> : i \in 1 .. Len(input.gold)}
        /\ \A key \in DOMAIN eb.buckets :
               eb.buckets[key] = ExpectedBucket(key[1], key[2])

\* C3: with gold and pred of different lengths, error_buckets and add both
\* end in a LengthMismatch error: no bucket is returned, nothing is counted.
C3_LengthMismatch ==
    (Len(input.gold) # Len(input.pred)) =>
        /\ eb.outcome \in {"none", "LengthMismatch"}
        /\ eb.buckets = EmptyBuckets
        /\ last.op = "add" => last.outcome = "LengthMismatch"
        /\ counter = EmptyCounter

\* C4: on a ConfusionMatrix with no observation, compile (either trim) and
\* display raise, return and print nothing, and no matrix is cached.
C4_EmptyRaises ==
    (DOMAIN counter = {}) =>
        /\ mat = None
        /\ last.op \in {"compile", "display"} =>
               /\ last.outcome # "ok"
               /\ last.ret = None
               /\ last.text = <<>>

C4_Witness ==
    /\ DOMAIN counter = {}
    /\ added
    /\ last.op = "display"
    /\ last.outcome = "ValueError"

\* The sum of the cells of a matrix.
MatSum(x) ==
    LET S[i \in 0 .. x.m, j \in 0 .. x.n] ==
            IF i = 0 THEN 0
            ELSE IF j = 0 THEN S[i - 1, x.n]
            ELSE S[i, j - 1] + x.a[<<i - 1, j - 1>>]
    IN  IF x.m = 0 THEN 0 ELSE S[x.m, x.n]

\* The number of items passed to the add calls made so far.
TotalItems ==
    LET N[c \in 0 .. Len(calls)] ==
            IF c = 0 THEN 0 ELSE N[c - 1] + Len(calls[c][1])
    IN  N[Len(calls)]

\* C5: after add calls with tensors of equal length, compile(trim=False) is
\* square and its cells sum to the number of items added.
C5_SquareAndTotal ==
    (CompiledOk /\ ~last.args.trim) =>
        /\ last.ret.m = last.ret.n
        /\ MatSum(last.ret) = TotalItems

C5_Witness ==
    /\ CompiledOk
    /\ ~last.args.trim
    /\ Len(calls) = 2
    /\ Len(calls[1][1]) >= 1
    /\ Len(calls[2][1]) >= 1

BucketLen(p, y) ==
    IF <<p, y>> \in DOMAIN eb.buckets THEN Len(eb.buckets[<<p, y>>]) ELSE 0

C6_Case ==
    /\ eb.outcome = "ok"
    /\ ~input.X.given
    /\ Len(input.gold) = Len(input.pred)
    /\ CompiledOk
    /\ ~last.args.trim

\* C6: for gold and pred of equal length, the length of the bucket (p, y) of
\* error_buckets(gold, pred), 0 without the key, is the cell [p, y] of
\* compile(trim=False) after the single add(gold, pred).
C6_BucketsMatchMatrix ==
    C6_Case =>
        \A p \in 0 .. last.ret.m - 1, y \in 0 .. last.ret.n - 1 :
            BucketLen(p, y) = last.ret.a[<<p, y>>]

C6_Witness ==
    /\ C6_Case
    /\ \E key \in DOMAIN eb.buckets :
           /\ key[1] # key[2]
           /\ <<key[2], key[1]>> \notin DOMAIN eb.buckets

\* C7: compile(trim=True) is compile(trim=False) of the same counter without
\* row 0 exactly when null_pred is false and without column 0 exactly when
\* null_gold is false; the other rows and columns are kept, in order.
C7_TrimDropsNull ==
    (CompiledOk /\ last.args.trim) =>
        LET full == CompileMat(counter, FALSE, null_pred, null_gold)
            r0   == IF null_pred THEN 0 ELSE 1
            c0   == IF null_gold THEN 0 ELSE 1
        IN  /\ last.ret.m = full.m - r0
            /\ last.ret.n = full.n - c0
            /\ \A i \in 0 .. last.ret.m - 1, j \in 0 .. last.ret.n - 1 :
                   last.ret.a[<<i, j>>] = full.a[<<i + r0, j + c0>>]

C7_Witness ==
    /\ CompiledOk
    /\ last.args.trim
    /\ ~null_pred
    /\ null_gold
    /\ last.ret.m >= 1
    /\ \E ij \in DOMAIN last.ret.a : last.ret.a[ij] >= 1

\* The counter after the two recorded calls made in the other order.
SwappedCounter ==
    AddCounter(AddCounter(EmptyCounter, calls[2][1], calls[2][2]),
               calls[1][1], calls[1][2])

\* C8: add(a, b); add(c, d) on a fresh ConfusionMatrix gives the counts, and
\* the compiled matrix for either trim, of add(c, d); add(a, b).
C8_Commutative ==
    (Len(calls) = 2) =>
        /\ counter = SwappedCounter
        /\ last.op = "compile" =>
               IF KeyMax(SwappedCounter).outcome # "ok"
               THEN last.outcome = KeyMax(SwappedCounter).outcome
               ELSE /\ last.outcome = "ok"
                    /\ last.ret = CompileMat(SwappedCounter, last.args.trim,
                                             null_pred, null_gold)

C8_Witness ==
    /\ Len(calls) = 2
    /\ Zip(calls[1][1], calls[1][2]) # <<>>
    /\ Zip(calls[2][1], calls[2][2]) # <<>>
    /\ calls[1] # calls[2]
    /\ CompiledOk

\* C9: whenever a matrix is cached, it is the matrix of the current counter
\* under one of the trim modes, and so is the matrix __repr__ shows.
C9_CacheFresh ==
    /\ mat # None =>
           \E trim \in BOOLEAN : mat = CompileMat(counter, trim, null_pred, null_gold)
    /\ (last.op = "repr" /\ last.outcome = "ok") =>
           \E trim \in BOOLEAN :
               last.text = StrMat(CompileMat(counter, trim, null_pred, null_gold))

\* The text of the cell [i, j] in display's rate mode.
RateText(x, i, j) == FormatRate(x.a[<<i, j>>], RowSum(x, i))

\* The number of characters of row i's line before the cell of column j (the
\* margin, the row label and its gap, the visible cells before j and theirs).
CellStart(x, i, j, indent, spacing) ==
    LET W[c \in 0 .. j] ==
            IF c = 0 THEN indent + Len(RowLabel(i)) + spacing
            ELSE IF c - 1 = 0 /\ ~null_gold THEN W[c - 1]
            ELSE W[c - 1] + Len(RateText(x, i, c - 1)) + spacing
    IN  W[j]

\* C10: in display, with mark_diag and without counts, the marker of a visible
\* diagonal cell replaces a space immediately before that cell, never a
\* character of another cell's value; with counts no marker is written.
\* (Stated for the rows whose rates are defined, and counting the blank that
\* ends the row label as a space before the first cell.)
C10_MarkerOnSpace ==
    DisplayedOk =>
        LET ar    == last.args
            plain == DisplayLines(mat, null_pred, null_gold, ar.counts,
                                  ar.indent, ar.spacing, FALSE)
            first == IF null_pred THEN 0 ELSE 1
        IN  /\ Len(last.text) = Len(plain)
            /\ ar.counts => last.text = plain
            /\ last.text[1] = plain[1]
            /\ \A r \in 2 .. Len(plain) :
                   LET i == first + r - 2
                   IN  RowSum(mat, i) > 0 =>
                           /\ Len(last.text[r]) = Len(plain[r])
                           /\ \A q \in 1 .. Len(plain[r]) :
                                  last.text[r][q] # plain[r][q] =>
                                      /\ last.text[r][q] = "*"
                                      /\ plain[r][q] = " "
                                      /\ q = CellStart(mat, i, i, ar.indent, ar.spacing)
====
